---- MODULE Spec2Model ----
(***************************************************************************)
(* Growth series of py_wlc: IndexSeries (generic/growth.py), ExtendedDict  *)
(* (generic/__init__.py), GdpDeflator (economics/gdp_deflator.py) and      *)
(* Discount (economics/discount.py); Cost (economics/cost.py); and        *)
(* ResidualValueCalculator (economics/residual_value.py).                  *)
(*                                                                         *)
(* Python floats are modelled as rationals <<n, d>> (d > 0, lowest terms). *)
(* The growth series compute with them exactly.  Cost compares the floats  *)
(* it has computed with == and !=, so its divisions and multiplications    *)
(* round to the nearest float as Python's do, with a significand of        *)
(* FloatBits bits in place of 53.  Rates are drawn from RateSet, all       *)
(* greater than -1, so that no factor 1 + rate is zero.  A Python dict is  *)
(* a function with a finite domain of integers; None is the empty sequence *)
(* and an optional value v is <<v>>.                                       *)
(***************************************************************************)
EXTENDS Integers, Sequences, FiniteSets, TLC

VARIABLES
    deflator,   \* the GdpDeflator object: <<>> before construction, <<self>> after
    discount,   \* the Discount object: <<>> while there is none, <<self>> otherwise
    made,       \* the arguments the GdpDeflator was constructed with
    call,       \* the operation executed last
    ret,        \* its outcome: the value returned or the exception raised
    costs,      \* the Cost objects constructed so far, in order
    ccall,      \* the Cost operation executed last
    cret,       \* its outcome
    calc,       \* the ResidualValueCalculator: <<>> while there is none, <<self>> otherwise
    rcall,      \* the calculator operation executed last
    rret,       \* its outcome
    pc,         \* for each concurrent caller, the statement it executes next
    frame       \* for each concurrent caller, the local variables of its lookup

vars == <<deflator, discount, made, call, ret, costs, ccall, cret, calc, rcall, rret, pc, frame>>
costVars == <<costs, ccall, cret>>
residualVars == <<calc, rcall, rret>>
callerVars == <<pc, frame>>

(* ----------------------------- bounds --------------------------------- *)

\* Calendar base year used for the series that are constructed.
BaseYear == 2010

\* Lookups are made for the years BaseYear - LookSpan .. BaseYear + LookSpan.
LookSpan == 3

\* Width in bits of a float's significand (53 in Python).
FloatBits == 8

\* Python hashes numbers modulo 2^HashBits - 1 (HashBits is 61 in CPython).
HashBits == 13

(* --------------------------- rationals -------------------------------- *)

Abs(n) == IF n < 0 THEN -n ELSE n

RECURSIVE Gcd(_, _)
Gcd(a, b) == IF b = 0 THEN a ELSE Gcd(b, a % b)

\* The rational n/d (d # 0) in lowest terms with a positive denominator.
Rat(n, d) ==
    LET g == Gcd(Abs(n), Abs(d))
        s == IF d < 0 THEN -1 ELSE 1
    IN  <<(s * n) \div g, (s * d) \div g>>

RInt(n) == <<n, 1>>
RAdd(a, b) == Rat(a[1] * b[2] + b[1] * a[2], a[2] * b[2])
RMul(a, b) == Rat(a[1] * b[1], a[2] * b[2])
RDiv(a, b) == Rat(a[1] * b[2], a[2] * b[1])
RLt(a, b) == a[1] * b[2] < b[1] * a[2]

\* The rates the rate mappings are built from: 0, 1/2 and -1/2.
RateSet == {<<0, 1>>, <<1, 2>>, <<-1, 2>>}

(* ------------------------ builtins on dicts --------------------------- *)

Min(S) == CHOOSE x \in S : \A y \in S : x <= y
Max(S) == CHOOSE x \in S : \A y \in S : x >= y

\* Outcome of an expression: a returned value or a raised exception.
Return(v) == [kind |-> "return", val |-> v, exc |-> ""]
Raise(e) == [kind |-> "raise", val |-> <<0, 1>>, exc |-> e]
ReturnNone == [kind |-> "none", val |-> <<0, 1>>, exc |-> ""]
\* A returned bool: True is 1 and False is 0, as in Python.
ReturnBool(b) == [kind |-> "bool", val |-> IF b THEN <<1, 1>> ELSE <<0, 1>>, exc |-> ""]

\* dict.__getitem__
Dict_getitem(d, key) ==
    IF key \in DOMAIN d THEN Return(d[key]) ELSE Raise("KeyError")

\* dict.get
Dict_get(d, key, default) ==
    IF key \in DOMAIN d THEN d[key] ELSE default

\* ExtendedDict.__getitem__
ExtendedDict_getitem(d, key) ==
    IF key \in DOMAIN d THEN Return(d[key])
    ELSE IF DOMAIN d # {} /\ key > Max(DOMAIN d) THEN Return(d[Max(DOMAIN d)])
    ELSE IF DOMAIN d # {} /\ key < Min(DOMAIN d) THEN Return(d[Min(DOMAIN d)])
    ELSE Raise("KeyError")

\* ExtendedDict.get
ExtendedDict_get(d, key, default) ==
    LET r == ExtendedDict_getitem(d, key)
    IN  IF r.kind = "return" THEN r.val ELSE default

(* ----------------------------- inputs --------------------------------- *)

\* The calendar years a GdpDeflator's rate mapping may have as keys: the
\* year before the base year, the base year and the year after it, so that
\* a mapping may leave a gap and may leave out the base year.
KeyYears == {BaseYear - 1, BaseYear, BaseYear + 1}
LookYears == (BaseYear - LookSpan)..(BaseYear + LookSpan)
\* The year zero a Discount may be given: before, at and after the base year.
ZeroYears == {BaseYear - 1, BaseYear, BaseYear + 1}

\* The rate mappings a caller may pass: every dict from some of KeyYears
\* (the empty dict included) to RateSet.
RateMaps == UNION {[K -> RateSet] : K \in SUBSET KeyYears}

\* Rate mappings keyed by relative year, as Discount takes them: the empty
\* dict, and dicts with rates 0 and 1/2 for some of the relative years 0, 2.
RelKeys == {0, 2}
RelRateMaps == UNION {[K -> {<<0, 1>>, <<1, 2>>}] : K \in SUBSET RelKeys}

(* ----------------------------- IndexSeries ---------------------------- *)

\* self._rates[key], on the kind of dict the series holds
Rates_getitem(self, key) ==
    IF self.extended THEN ExtendedDict_getitem(self.rates, key)
    ELSE Dict_getitem(self.rates, key)

\* A rates.get that holds the boundary rate outward whatever kind of dict
\* the series was built with.
Rates_get_alwaysBoundary(self, key, default) ==
    ExtendedDict_get(self.rates, key, default)

\* self._rates.get(key, default), on the kind of dict the series holds
Rates_get(self, key, default) ==
    IF self.extended THEN ExtendedDict_get(self.rates, key, default)
    ELSE Dict_get(self.rates, key, default)

\* An infill loop that fills every gap with the rate it started with.
RECURSIVE FillLoop_keepsInitial(_, _, _, _, _)
FillLoop_keepsInitial(rates, filled, rate, year, max_year) ==
    IF year >= max_year THEN filled
    ELSE IF year \in DOMAIN rates
         THEN FillLoop_keepsInitial(rates, filled, rate, year + 1, max_year)
         ELSE FillLoop_keepsInitial(rates, (year :> rate) @@ filled, rate,
                                    year + 1, max_year)

\* The infill loop of IndexSeries.__init__: for year in range(min_year,
\* max_year), keep the explicit rate or store the last one seen.
RECURSIVE FillLoop(_, _, _, _, _)
FillLoop(rates, filled, rate, year, max_year) ==
    IF year >= max_year THEN filled
    ELSE IF year \in DOMAIN rates
         THEN FillLoop(rates, filled, rates[year], year + 1, max_year)
         ELSE FillLoop(rates, (year :> rate) @@ filled, rate, year + 1, max_year)

\* IndexSeries.rate
IndexSeries_rate(self, year) ==
    LET r == Rates_getitem(self, year)
    IN  IF r.kind = "return" THEN r.val
        ELSE IF year < Min(DOMAIN self.rates) THEN self.initial_rate
        ELSE self.final_rate

(* ------------------------------ Discount ------------------------------ *)

\* Discount.RATES
RATES ==
    (0 :> Rat(35, 1000)) @@ (31 :> Rat(3, 100)) @@ (76 :> Rat(25, 1000)) @@
    (126 :> Rat(2, 100)) @@ (201 :> Rat(15, 1000)) @@ (301 :> Rat(1, 100))

\* The names class Discount and its bases IndexSeries and object define;
\* an attribute of any other name cannot be found on a Discount.
DiscountAttrs ==
    {"RATES", "__init__", "__getitem__", "rebase", "rate", "_extend_values",
     "__iter__", "__len__", "__hash__", "__eq__", "get"}

\* Discount.rate
Discount_rate(self, year) ==
    IF year < self.base_year - self.year_zero THEN RInt(0)
    ELSE IndexSeries_rate(self, year)

\* Discount._extend_values: for year_ in range(max(self._values), year)
RECURSIVE DiscountLoop(_, _, _, _)
DiscountLoop(self, values, year_, year) ==
    IF year_ >= year THEN values
    ELSE DiscountLoop(self,
                      (year_ + 1 :> RDiv(values[year_],
                                         RAdd(RInt(1), Discount_rate(self, year_ + 1))))
                          @@ values,
                      year_ + 1, year)

Discount_extend_values(self, year) ==
    DiscountLoop(self, self.values, Max(DOMAIN self.values), year)

(* ----------------------------- GdpDeflator ---------------------------- *)

\* GdpDeflator._extend_values, backward branch:
\* for year_ in range(min_year-1, year-1, -1)
RECURSIVE DeflatorDown(_, _, _, _)
DeflatorDown(self, values, year_, year) ==
    IF year_ <= year - 1 THEN values
    ELSE LET fact == RAdd(RInt(1), Rates_get(self, year_, RInt(0)))
         IN  DeflatorDown(self,
                          (year_ :> RDiv(values[year_ + 1], fact)) @@ values,
                          year_ - 1, year)

\* GdpDeflator._extend_values, forward branch:
\* for year_ in range(max_year, year)
\* A forward loop that takes the rate of the requested year, not of the
\* year it is stepping over.
RECURSIVE DeflatorUp_rateOfTarget(_, _, _, _)
DeflatorUp_rateOfTarget(self, values, year_, year) ==
    IF year_ >= year THEN values
    ELSE LET fact == RAdd(RInt(1), Rates_get(self, year, RInt(0)))
         IN  DeflatorUp_rateOfTarget(self,
                        (year_ + 1 :> RMul(values[year_], fact)) @@ values,
                        year_ + 1, year)

RECURSIVE DeflatorUp(_, _, _, _)
DeflatorUp(self, values, year_, year) ==
    IF year_ >= year THEN values
    ELSE LET fact == RAdd(RInt(1), Rates_get(self, year_, RInt(0)))
         IN  DeflatorUp(self,
                        (year_ + 1 :> RMul(values[year_], fact)) @@ values,
                        year_ + 1, year)

\* A backward extension that starts a new cache from the smallest cached
\* year instead of adding to the cache it has.
GdpDeflator_extend_values_newCache(self, year) ==
    LET min_year == Min(DOMAIN self.values)
        max_year == Max(DOMAIN self.values)
    IN  IF year < min_year
        THEN DeflatorDown(self, (min_year :> self.values[min_year]),
                          min_year - 1, year)
        ELSE IF year > max_year
        THEN DeflatorUp(self, self.values, max_year, year)
        ELSE self.values

\* An extension that, like Discount's, only ever goes forward.
GdpDeflator_extend_values_forwardOnly(self, year) ==
    DeflatorUp(self, self.values, Max(DOMAIN self.values), year)

GdpDeflator_extend_values(self, year) ==
    LET min_year == Min(DOMAIN self.values)
        max_year == Max(DOMAIN self.values)
    IN  IF year < min_year
        THEN DeflatorDown(self, self.values, min_year - 1, year)
        ELSE IF year > max_year
        THEN DeflatorUp(self, self.values, max_year, year)
        ELSE self.values

(* ----------------- IndexSeries construction and lookup ---------------- *)

\* self._extend_values(year), dispatched on the class of self
Extend_values(self, year) ==
    IF self.cls = "Discount" THEN Discount_extend_values(self, year)
    ELSE GdpDeflator_extend_values(self, year)

\* IndexSeries.__init__; the result is the new object, or the exception
\* that min() raises on an empty mapping.
IndexSeries_init(cls, base_year, rates, extended, initial_value, year_zero, initial_rate) ==
    IF DOMAIN rates = {} THEN [exc |-> "ValueError", obj |-> <<>>]
    ELSE LET yz == IF year_zero = <<>> THEN base_year ELSE year_zero[1]
             min_year == Min(DOMAIN rates)
             max_year == Max(DOMAIN rates)
             ir == IF initial_rate = <<>> THEN rates[min_year]
                   ELSE initial_rate[1]
             self0 == [cls |-> cls,
                       base_year |-> base_year,
                       year_zero |-> yz,
                       rates |-> FillLoop(rates, rates, ir, min_year, max_year),
                       extended |-> extended,
                       initial_rate |-> ir,
                       final_rate |-> rates[max_year],
                       values |-> (base_year - yz :> initial_value),
                       hash |-> <<>>]
         IN  [exc |-> "",
              obj |-> <<[self0 EXCEPT !.values = Extend_values(self0, 0)]>>]

\* IndexSeries.__getitem__: the outcome and the value cache it leaves.
IndexSeries_getitem(self, year) ==
    LET rel == year - self.year_zero
        values == IF rel \notin DOMAIN self.values
                  THEN Extend_values(self, rel) ELSE self.values
    IN  [out |-> IF rel \in DOMAIN values THEN Return(values[rel])
                 ELSE Raise("KeyError"),
         values |-> values]

\* IndexSeries.get: the lookup is made and its result dropped; the method
\* returns default when the lookup raised KeyError and otherwise runs off
\* its end, which returns None.
IndexSeries_get(self, year, default) ==
    LET r == IndexSeries_getitem(self, year)
    IN  [out |-> IF r.out.exc = "KeyError"
                 THEN (IF default = <<>> THEN ReturnNone ELSE Return(default[1]))
                 ELSE ReturnNone,
         values |-> r.values]

\* A GdpDeflator.__init__ without the fallback for an empty mapping.
GdpDeflator_init_noFallback(base_year, rates, extend) ==
    IndexSeries_init("GdpDeflator", base_year,
                     [y \in {year - base_year : year \in DOMAIN rates} |->
                          rates[y + base_year]],
                     extend, RInt(100), <<>>, <<>>)

\* GdpDeflator.__init__
GdpDeflator_init(base_year, rates, extend) ==
    LET rates1 == IF DOMAIN rates = {} THEN (base_year :> RInt(0)) ELSE rates
        rates2 == [y \in {year - base_year : year \in DOMAIN rates1} |->
                       rates1[y + base_year]]
    IN  IndexSeries_init("GdpDeflator", base_year, rates2, extend,
                         RInt(100), <<>>, <<>>)

\* A conversion factor with the two years the wrong way round.
GdpDeflator_conversion_factor_inverted(self, year_from, year_to) ==
    LET yt == IF year_to = <<>> THEN self.base_year ELSE year_to[1]
        a == IndexSeries_getitem(self, yt)
        b == IndexSeries_getitem([self EXCEPT !.values = a.values], year_from)
    IN  [out |-> Return(RDiv(b.out.val, a.out.val)), values |-> b.values]

\* GdpDeflator.conversion_factor: self[year_to] is evaluated first, then
\* self[year_from]; the outcome and the value cache the two lookups leave.
\* year_to is <<>> when the argument is left to its default None.
GdpDeflator_conversion_factor(self, year_from, year_to) ==
    LET yt == IF year_to = <<>> THEN self.base_year ELSE year_to[1]
        a == IndexSeries_getitem(self, yt)
        b == IndexSeries_getitem([self EXCEPT !.values = a.values], year_from)
    IN  [out |-> IF a.out.kind # "return" THEN a.out
                 ELSE IF b.out.kind # "return" THEN b.out
                 ELSE IF b.out.val = RInt(0) THEN Raise("ZeroDivisionError")
                 ELSE Return(RDiv(a.out.val, b.out.val)),
         values |-> b.values]

\* Discount.__init__: the call self._infill_rates(rates) comes before the
\* base class is initialised and fails unless the attribute is found.
Discount_init(base_year, rates, year_zero) ==
    LET rates1 == IF rates = <<>> THEN RATES ELSE rates[1]
    IN  IF "_infill_rates" \notin DiscountAttrs
        THEN [exc |-> "AttributeError", obj |-> <<>>]
        ELSE IndexSeries_init("Discount", base_year, rates1, TRUE,
                              RInt(1), year_zero, <<>>)

\* Discount.__getitem__
Discount_getitem(self, year) ==
    LET r == IndexSeries_getitem(self, year)
    IN  IF r.out.kind = "raise" /\ r.out.exc = "KeyError"
        THEN [out |-> Return(RInt(1)), values |-> r.values]
        ELSE r

\* Discount.rebase
Discount_rebase(self, year_zero) ==
    Discount_init(self.base_year, <<self.rates>>, <<year_zero>>)

(* ------------------------------- floats ------------------------------- *)

\* a / d > 0 brought into [2^(FloatBits-1), 2^FloatBits) by powers of two and
\* rounded to the nearest integer, ties to even; up and down undo the scaling.
RECURSIVE FlRound(_, _, _, _)
FlRound(a, d, up, down) ==
    IF a < 2^(FloatBits - 1) * d THEN FlRound(2 * a, d, 2 * up, down)
    ELSE IF a >= 2^FloatBits * d THEN FlRound(a, 2 * d, up, 2 * down)
    ELSE LET q == a \div d
             r == a % d
             m == IF 2 * r > d \/ (2 * r = d /\ q % 2 = 1) THEN q + 1 ELSE q
         IN  Rat(m * down, up)

\* The float nearest to the rational x.
Fl(x) ==
    IF x[1] = 0 THEN x
    ELSE LET r == FlRound(Abs(x[1]), x[2], 1, 1)
         IN  IF x[1] < 0 THEN <<0 - r[1], r[2]>> ELSE r

\* Float multiplication and true division.
FMul(a, b) == Fl(RMul(a, b))
FDiv(a, b) == Fl(RDiv(a, b))

\* x ^ y on non-negative integers.
RECURSIVE BitXor(_, _)
BitXor(x, y) ==
    IF x = 0 THEN y
    ELSE IF y = 0 THEN x
    ELSE 2 * BitXor(x \div 2, y \div 2) + (((x % 2) + (y % 2)) % 2)

\* k for d = 2^k.
RECURSIVE Log2(_)
Log2(d) == IF d <= 1 THEN 0 ELSE 1 + Log2(d \div 2)

\* hash(x) of a non-negative number x = n / 2^k: n times the inverse of 2^k
\* modulo 2^HashBits - 1, so that an integral float hashes as the integer.
PyHash(x) ==
    (x[1] * (2^((HashBits - (Log2(x[2]) % HashBits)) % HashBits))) % (2^HashBits - 1)

(* ------------------- IndexSeries: equality and hash ------------------- *)

\* hash(x) as an unsigned word of HashBits bits; a negative number hashes as
\* minus the hash of its absolute value.
UHash(x) ==
    (IF x[1] < 0 THEN 0 - PyHash(<<0 - x[1], x[2]>>) ELSE PyHash(x)) % (2^HashBits)

\* hash((key, value)) of one item of the rate table: the hashes of the two
\* elements mixed in order, in words of HashBits bits.
TupleHash(key, value) ==
    ((UHash(RInt(key)) * 31 + UHash(value)) * 31 + 2) % (2^HashBits)

\* hash(frozenset(items)): the hashes of the items combined by exclusive or,
\* in whatever order, and mixed with the number of items.
RECURSIVE FrozensetHash(_, _)
FrozensetHash(rates, keys) ==
    IF keys = {} THEN ((Cardinality(DOMAIN rates) + 1) * 37) % (2^HashBits)
    ELSE LET key == CHOOSE k \in keys : TRUE
         IN  BitXor(TupleHash(key, rates[key]),
                    FrozensetHash(rates, keys \ {key}))

\* An equality that also compares the value caches.
IndexSeries_eq_comparesCache(self, other) ==
    /\ self.base_year = other.base_year
    /\ self.year_zero = other.year_zero
    /\ self.rates = other.rates
    /\ self.values = other.values

\* IndexSeries.__eq__; a dict and an ExtendedDict are equal when their items
\* are.
IndexSeries_eq(self, other) ==
    /\ self.base_year = other.base_year
    /\ self.year_zero = other.year_zero
    /\ self.rates = other.rates

\* IndexSeries.__hash__: the value, and the _hash the call leaves.
IndexSeries_hash(self) ==
    LET hash == IF self.hash = <<>>
                THEN <<BitXor(BitXor(PyHash(RInt(self.base_year)),
                                     PyHash(RInt(self.year_zero))),
                              FrozensetHash(self.rates, DOMAIN self.rates))>>
                ELSE self.hash
    IN  [val |-> hash[1], hash |-> hash]

(* -------------------------------- Cost -------------------------------- *)

FACTOR_COST == 1
MARKET_PRICE == 2
NOMINAL == 4
REAL == 8
PRESENT_VALUE == 16

\* type_ & flag, as a truth value; flag is a single bit.
HasFlag(type_, flag) == (type_ \div flag) % 2 = 1

\* Every value of type_ over the five flags.
FlagSets == 0..(2 * PRESENT_VALUE - 1)

\* A validate_type that lets nominal present values through.
Cost_validate_type_nominalPresentValue(type_) ==
    IF HasFlag(type_, MARKET_PRICE) /\ HasFlag(type_, FACTOR_COST) THEN "ValueError"
    ELSE IF HasFlag(type_, NOMINAL) /\ HasFlag(type_, REAL) THEN "ValueError"
    ELSE IF HasFlag(type_, FACTOR_COST) /\ HasFlag(type_, PRESENT_VALUE) THEN "ValueError"
    ELSE ""

\* A validate_type with the three rules for market price, nominal and real
\* only, letting factor-cost present values through.
Cost_validate_type_threeRules(type_) ==
    IF HasFlag(type_, MARKET_PRICE) /\ HasFlag(type_, FACTOR_COST) THEN "ValueError"
    ELSE IF HasFlag(type_, NOMINAL) /\ HasFlag(type_, REAL) THEN "ValueError"
    ELSE IF HasFlag(type_, NOMINAL) /\ HasFlag(type_, PRESENT_VALUE) THEN "ValueError"
    ELSE ""

\* Cost.validate_type: the exception it raises, "" when it returns.
Cost_validate_type(type_) ==
    IF HasFlag(type_, MARKET_PRICE) /\ HasFlag(type_, FACTOR_COST) THEN "ValueError"
    ELSE IF HasFlag(type_, NOMINAL) /\ HasFlag(type_, REAL) THEN "ValueError"
    ELSE IF HasFlag(type_, NOMINAL) /\ HasFlag(type_, PRESENT_VALUE) THEN "ValueError"
    ELSE IF HasFlag(type_, FACTOR_COST) /\ HasFlag(type_, PRESENT_VALUE) THEN "ValueError"
    ELSE ""

\* A Cost.__init__ that treats a present value as a real price only, and
\* divides by the adjustment factor just when MARKET_PRICE was supplied.
Cost_init_presentValueAsReal(value, type_, year, discount_factor, deflator_, adjustment_factor) ==
    IF Cost_validate_type(type_) # ""
    THEN [exc |-> Cost_validate_type(type_), obj |-> <<>>,
          values |-> deflator_.values]
    ELSE LET g == IndexSeries_getitem(deflator_, year)
             deflation_factor == FDiv(RInt(100), g.out.val)
             pv == HasFlag(type_, PRESENT_VALUE)
             value1 == IF pv THEN FDiv(value, discount_factor) ELSE value
             value2 == IF pv \/ HasFlag(type_, REAL)
                       THEN FDiv(value1, deflation_factor) ELSE value1
             value3 == IF HasFlag(type_, MARKET_PRICE)
                       THEN FDiv(value2, adjustment_factor) ELSE value2
         IN  [exc |-> "",
              obj |-> <<[value |-> value3,
                         year |-> year,
                         discount_factor |-> discount_factor,
                         deflation_factor |-> deflation_factor,
                         adjustment_factor |-> adjustment_factor]>>,
              values |-> g.values]

\* Cost.__init__.  discount_factor is the number discount[year] yields: the
\* constructor reads nothing else from its discount argument.  The result is
\* the exception raised, the new object, and the value cache that
\* deflator[year] leaves in the deflator.
Cost_init(value, type_, year, discount_factor, deflator_, adjustment_factor) ==
    IF Cost_validate_type(type_) # ""
    THEN [exc |-> Cost_validate_type(type_), obj |-> <<>>,
          values |-> deflator_.values]
    ELSE LET g == IndexSeries_getitem(deflator_, year)
             deflation_factor == FDiv(RInt(100), g.out.val)
             pv == HasFlag(type_, PRESENT_VALUE)
             value1 == IF pv THEN FDiv(value, discount_factor) ELSE value
             type1 == IF pv THEN MARKET_PRICE + REAL ELSE type_
             real == HasFlag(type1, REAL)
             value2 == IF real THEN FDiv(value1, deflation_factor) ELSE value1
             type2 == IF real THEN type1 - (REAL - NOMINAL) ELSE type1
             value3 == IF HasFlag(type2, MARKET_PRICE)
                       THEN FDiv(value2, adjustment_factor) ELSE value2
         IN  [exc |-> "",
              obj |-> <<[value |-> value3,
                         year |-> year,
                         discount_factor |-> discount_factor,
                         deflation_factor |-> deflation_factor,
                         adjustment_factor |-> adjustment_factor]>>,
              values |-> g.values]

\* Cost.__eq__
Cost_eq(self, other) ==
    /\ self.value = other.value
    /\ self.year = other.year
    /\ self.discount_factor = other.discount_factor
    /\ self.deflation_factor = other.deflation_factor
    /\ self.adjustment_factor = other.adjustment_factor

\* Cost.__hash__
Cost_hash(self) ==
    BitXor(BitXor(BitXor(BitXor(BitXor(0, PyHash(self.value)),
                                PyHash(RInt(self.year))),
                         PyHash(self.discount_factor)),
                  PyHash(self.deflation_factor)),
           PyHash(self.adjustment_factor))

\* A present value that leaves the discount factor out.
Cost_present_value_undiscounted(self) ==
    FMul(FMul(self.value, self.adjustment_factor), self.deflation_factor)

\* Cost.present_value
Cost_present_value(self) ==
    FMul(FMul(FMul(self.value, self.adjustment_factor), self.deflation_factor),
         self.discount_factor)

\* An as_type that never applies the adjustment factor.
Cost_as_type_noAdjustment(self, type_) ==
    IF Cost_validate_type(type_) # "" THEN Raise(Cost_validate_type(type_))
    ELSE IF HasFlag(type_, PRESENT_VALUE) THEN Return(Cost_present_value(self))
    ELSE IF HasFlag(type_, REAL)
         THEN Return(FMul(self.value, self.deflation_factor))
         ELSE Return(self.value)

\* Cost.as_type
Cost_as_type(self, type_) ==
    IF Cost_validate_type(type_) # "" THEN Raise(Cost_validate_type(type_))
    ELSE IF HasFlag(type_, PRESENT_VALUE) THEN Return(Cost_present_value(self))
    ELSE LET value1 == IF HasFlag(type_, REAL)
                       THEN FMul(self.value, self.deflation_factor)
                       ELSE self.value
             value2 == IF HasFlag(type_, MARKET_PRICE)
                       THEN FMul(value1, self.adjustment_factor)
                       ELSE value1
         IN  Return(value2)

\* What a comparison method returns: NotImplemented, or a bool.
NotImplemented == [ni |-> TRUE, val |-> FALSE]
Bool(b) == [ni |-> FALSE, val |-> b]

\* A __lt__ that compares the values of Costs of different years.
Cost_lt_anyYear(self, other) ==
    IF \/ self.discount_factor # other.discount_factor
       \/ self.deflation_factor # other.deflation_factor
       \/ self.adjustment_factor # other.adjustment_factor
    THEN NotImplemented
    ELSE Bool(RLt(self.value, other.value))

\* Cost.__lt__
Cost_lt(self, other) ==
    IF \/ self.year # other.year
       \/ self.discount_factor # other.discount_factor
       \/ self.deflation_factor # other.deflation_factor
       \/ self.adjustment_factor # other.adjustment_factor
    THEN NotImplemented
    ELSE Bool(RLt(self.value, other.value))

\* Cost.__ge__
Cost_ge(self, other) ==
    LET lt_ == Cost_lt(self, other)
    IN  IF lt_.ni THEN NotImplemented
        ELSE Bool(Cost_eq(self, other) \/ ~lt_.val)

\* Cost.__gt__
Cost_gt(self, other) ==
    LET lt_ == Cost_lt(self, other)
    IN  IF lt_.ni THEN NotImplemented
        ELSE Bool(~Cost_eq(self, other) /\ ~lt_.val)

\* Cost.__le__
Cost_le(self, other) ==
    LET lt_ == Cost_lt(self, other)
    IN  IF lt_.ni THEN NotImplemented
        ELSE Bool(lt_.val \/ Cost_eq(self, other))

\* Cost.__ne__
Cost_ne(self, other) == Bool(~Cost_eq(self, other))

\* The method behind a comparison operator, and the operator Python tries
\* with the operands swapped when the method returns NotImplemented.
Cost_method(op, self, other) ==
    CASE op = "lt" -> Cost_lt(self, other)
      [] op = "le" -> Cost_le(self, other)
      [] op = "gt" -> Cost_gt(self, other)
      [] op = "ge" -> Cost_ge(self, other)
      [] op = "ne" -> Cost_ne(self, other)
Reflected(op) ==
    CASE op = "lt" -> "gt"
      [] op = "le" -> "ge"
      [] op = "gt" -> "lt"
      [] op = "ge" -> "le"
      [] op = "ne" -> "ne"

\* a op b on two Costs, as the interpreter evaluates it: a's method, then
\* b's reflected method, then TypeError.
Cost_compare(op, a, b) ==
    LET first == Cost_method(op, a, b)
        second == Cost_method(Reflected(op), b, a)
    IN  IF ~first.ni THEN ReturnBool(first.val)
        ELSE IF ~second.ni THEN ReturnBool(second.val)
        ELSE Raise("TypeError")

(* ---------------------- ResidualValueCalculator ----------------------- *)

RSub(a, b) == RAdd(a, <<0 - b[1], b[2]>>)

\* a ** n for an integer n >= 0
RECURSIVE RPow(_, _)
RPow(a, n) == IF n <= 0 THEN RInt(1) ELSE RMul(a, RPow(a, n - 1))

\* max(a, b): b when it is greater than a, a otherwise
RMax(a, b) == IF RLt(a, b) THEN b ELSE a

\* sum_of_years_digits
RECURSIVE sum_of_years_digits(_)
sum_of_years_digits(year) ==
    IF year <= 0 THEN 0 ELSE year + sum_of_years_digits(year - 1)

\* ResidualValueCalculator.METHODS
METHODS ==
    ("linear" :> "linear") @@ ("double-declining" :> "double_declining") @@
    ("sum of years' digits" :> "sum_of_years")

\* ResidualValueCalculator.__init__
ResidualValueCalculator_init(method) ==
    IF method \notin DOMAIN METHODS THEN [exc |-> "ValueError", obj |-> <<>>]
    ELSE [exc |-> "", obj |-> <<[method |-> method, func |-> METHODS[method]]>>]

\* ResidualValueCalculator.double_declining
double_declining(value, life, build_year, target_year, scrap_value) ==
    RMul(value, RPow(RSub(RInt(1), RMul(RInt(2), RDiv(RInt(1), RInt(life)))),
                     target_year - build_year))

\* ResidualValueCalculator.linear
linear(value, life, build_year, target_year, scrap_value) ==
    LET fact == RSub(RInt(1), RDiv(RInt(target_year - build_year), RInt(life)))
    IN  RAdd(RMul(RSub(value, scrap_value), fact), scrap_value)

\* ResidualValueCalculator.sum_of_years
sum_of_years(value, life, build_year, target_year, scrap_value) ==
    LET res_life == life - (target_year - build_year)
        fact == RDiv(RInt(sum_of_years_digits(life) - sum_of_years_digits(res_life)),
                     RInt(sum_of_years_digits(life)))
    IN  RAdd(scrap_value, RMul(RSub(value, scrap_value), RSub(RInt(1), fact)))

\* self.func(value, life, build_year, target_year, scrap_value)
ResidualValueCalculator_func(self, value, life, build_year, target_year, scrap_value) ==
    IF self.func = "linear"
    THEN linear(value, life, build_year, target_year, scrap_value)
    ELSE IF self.func = "double_declining"
    THEN double_declining(value, life, build_year, target_year, scrap_value)
    ELSE sum_of_years(value, life, build_year, target_year, scrap_value)

\* ResidualValueCalculator.calculate
ResidualValueCalculator_calculate(self, value, life, build_year, target_year, scrap_value) ==
    IF target_year < build_year THEN Raise("ValueError")
    ELSE IF target_year = build_year THEN Return(value)
    ELSE IF target_year > build_year + life THEN Return(scrap_value)
    ELSE Return(RMax(scrap_value,
                     ResidualValueCalculator_func(self, value, life, build_year,
                                                  target_year, scrap_value)))

(* ------------------------------ actions ------------------------------- *)

NoResidualCall == [op |-> "", method |-> "", value |-> <<0, 1>>, life |-> 0, build_year |-> 0, target_year |-> 0, scrap_value |-> <<0, 1>>]

\* The concurrent callers of one series, and a caller that is in no lookup.
Callers == {1, 2}
NoFrame == [year |-> 0, min_year |-> 0, max_year |-> 0, year_ |-> 0, fact |-> <<0, 1>>, value |-> <<0, 1>>, out |-> ReturnNone]


NoCall == [op |-> "", year |-> 0, year_to |-> <<>>, rates |-> <<>>, year_zero |-> <<>>, self |-> 0, other |-> 0]
NoCostCall == [op |-> "", value |-> <<0, 1>>, type_ |-> 0, year |-> 0, discount_factor |-> <<0, 1>>, adjustment_factor |-> <<0, 1>>, i |-> 0, j |-> 0]

Init ==
    /\ deflator = <<>>
    /\ discount = <<>>
    /\ made = <<>>
    /\ call = NoCall
    /\ ret = ReturnNone
    /\ costs = <<>>
    /\ ccall = NoCostCall
    /\ cret = ReturnNone
    /\ calc = <<>>
    /\ rcall = NoResidualCall
    /\ rret = ReturnNone
    /\ pc = [t \in Callers |-> "idle"]
    /\ frame = [t \in Callers |-> NoFrame]

\* deflator = GdpDeflator(BaseYear, rates, extend)
NewGdpDeflator(rates, extend) ==
    /\ deflator = <<>>
    /\ LET r == GdpDeflator_init(BaseYear, rates, extend)
       IN  /\ deflator' = r.obj
           /\ ret' = IF r.exc = "" THEN ReturnNone ELSE Raise(r.exc)
    /\ made' = <<[rates |-> rates, extend |-> extend]>>
    /\ call' = [NoCall EXCEPT !.op = "GdpDeflator"]
    /\ UNCHANGED <<discount, costVars, residualVars, callerVars>>

\* deflator[year]
GetItem(year) ==
    /\ deflator # <<>>
    /\ LET r == IndexSeries_getitem(deflator[1], year)
       IN  /\ deflator' = <<[deflator[1] EXCEPT !.values = r.values]>>
           /\ ret' = r.out
    /\ call' = [NoCall EXCEPT !.op = "getitem", !.year = year]
    /\ UNCHANGED <<discount, made, costVars, residualVars, callerVars>>

\* deflator.rate(year), year a relative year
Rate(year) ==
    /\ deflator # <<>>
    /\ ret' = Return(IndexSeries_rate(deflator[1], year))
    /\ call' = [NoCall EXCEPT !.op = "rate", !.year = year]
    /\ UNCHANGED <<deflator, discount, made, costVars, residualVars, callerVars>>

\* discount = Discount(BaseYear, rates, year_zero); rates and year_zero are
\* <<>> when the argument is left to its default None.
NewDiscount(rates, year_zero) ==
    /\ discount = <<>>
    /\ LET r == Discount_init(BaseYear, rates, year_zero)
       IN  /\ discount' = r.obj
           /\ ret' = IF r.exc = "" THEN ReturnNone ELSE Raise(r.exc)
    /\ call' = [NoCall EXCEPT !.op = "Discount", !.rates = rates,
                              !.year_zero = year_zero]
    /\ UNCHANGED <<deflator, made, costVars, residualVars, callerVars>>

RelYears == (0 - LookSpan)..LookSpan

Next ==
    \/ /\ deflator = <<>>
       /\ \E rates \in RateMaps, extend \in BOOLEAN : NewGdpDeflator(rates, extend)
    \/ /\ deflator # <<>>
       /\ \E year \in LookYears : GetItem(year)
    \/ /\ deflator # <<>>
       /\ \E year \in RelYears : Rate(year)
    \/ \E rates \in {<<>>} \cup {<<m>> : m \in RelRateMaps},
          year_zero \in {<<>>} \cup {<<z>> : z \in ZeroYears} :
          NewDiscount(rates, year_zero)

Spec == Init /\ [][Next]_vars

\* Sparse rate mappings: every dict from some of five consecutive calendar
\* years around the base year to RateSet, so that a gap may follow a second
\* explicit rate and may be two years long.
WideKeyYears == (BaseYear - 2)..(BaseYear + 2)
WideRateMaps == UNION {[K -> RateSet] : K \in SUBSET WideKeyYears}

\* A GdpDeflator built from a sparse mapping, and rate lookups on it.
NextFill ==
    \/ /\ deflator = <<>>
       /\ \E rates \in WideRateMaps, extend \in BOOLEAN :
             NewGdpDeflator(rates, extend)
    \/ /\ deflator # <<>>
       /\ \E year \in RelYears : Rate(year)

SpecFill == Init /\ [][NextFill]_vars

\* deflator.conversion_factor(year_from, year_to)
ConversionFactor(year_from, year_to) ==
    /\ deflator # <<>>
    /\ LET r == GdpDeflator_conversion_factor(deflator[1], year_from, year_to)
       IN  /\ deflator' = <<[deflator[1] EXCEPT !.values = r.values]>>
           /\ ret' = r.out
    /\ call' = [NoCall EXCEPT !.op = "conversion_factor", !.year = year_from,
                              !.year_to = year_to]
    /\ UNCHANGED <<discount, made, costVars, residualVars, callerVars>>

\* The years a conversion factor may be asked to convert to: one before the
\* explicit rates and one after them (year_to may also be left out).
ToYears == {BaseYear - 2, BaseYear + 2}

\* A GdpDeflator with value lookups and conversion factors in any order.
NextConv ==
    \/ /\ deflator = <<>>
       /\ \E rates \in RateMaps, extend \in BOOLEAN : NewGdpDeflator(rates, extend)
    \/ /\ deflator # <<>>
       /\ \E year \in LookYears : GetItem(year)
    \/ /\ deflator # <<>>
       /\ \E year_from \in LookYears,
             year_to \in {<<>>} \cup {<<y>> : y \in ToYears} :
             ConversionFactor(year_from, year_to)

SpecConv == Init /\ [][NextConv]_vars

(* ---------------------------- Cost actions ---------------------------- *)

\* The amounts a Cost is built from.
Amounts == {<<100, 1>>, <<119, 1>>}
\* The numbers discount[year] may yield.
DiscountFactors == {<<1, 1>>, <<7, 8>>}
AdjustmentFactors == {<<1, 1>>, <<19, 16>>}
\* The years a Cost is incurred in: the deflator's base year and a year
\* beyond its explicit rates.
CostYears == {BaseYear, BaseYear + 2}
\* The rate mappings of the deflator a Cost is given.
CostRateMaps == {(BaseYear :> <<1, 2>>)}
\* The types two Costs that are compared are built with, and their amounts:
\* those of Amounts and the market prices the adjustment factors make of them.
PairTypes == {NOMINAL, MARKET_PRICE}
PairAmounts == Amounts \cup {FMul(v, a) : v \in Amounts, a \in AdjustmentFactors}
\* The years two Costs that are compared are incurred in: both beyond the
\* deflator's explicit rates, where a deflator built with extend false has
\* one value and one built with extend true has two.
PairYears == {BaseYear + 1, BaseYear + 2}

\* Cost.validate_type(type_)
ValidateType(type_) ==
    /\ cret' = IF Cost_validate_type(type_) = "" THEN ReturnNone
               ELSE Raise(Cost_validate_type(type_))
    /\ ccall' = [NoCostCall EXCEPT !.op = "validate_type", !.type_ = type_]
    /\ UNCHANGED <<deflator, discount, made, call, ret, costs, residualVars, callerVars>>

\* costs.append(Cost(value, type_, year, discount, deflator, adjustment_factor)),
\* discount an object whose discount[year] is discount_factor
NewCost(value, type_, year, discount_factor, adjustment_factor) ==
    /\ deflator # <<>>
    /\ LET r == Cost_init(value, type_, year, discount_factor, deflator[1],
                          adjustment_factor)
       IN  /\ costs' = costs \o r.obj
           /\ deflator' = <<[deflator[1] EXCEPT !.values = r.values]>>
           /\ cret' = IF r.exc = "" THEN ReturnNone ELSE Raise(r.exc)
    /\ ccall' = [NoCostCall EXCEPT !.op = "Cost", !.value = value,
                                  !.type_ = type_, !.year = year,
                                  !.discount_factor = discount_factor,
                                  !.adjustment_factor = adjustment_factor]
    /\ UNCHANGED <<discount, made, call, ret, residualVars, callerVars>>

\* costs[i].as_type(type_)
AsType(i, type_) ==
    /\ i \in DOMAIN costs
    /\ cret' = Cost_as_type(costs[i], type_)
    /\ ccall' = [NoCostCall EXCEPT !.op = "as_type", !.i = i, !.type_ = type_]
    /\ UNCHANGED <<deflator, discount, made, call, ret, costs, residualVars, callerVars>>

\* costs[i].present_value
PresentValue(i) ==
    /\ i \in DOMAIN costs
    /\ cret' = Return(Cost_present_value(costs[i]))
    /\ ccall' = [NoCostCall EXCEPT !.op = "present_value", !.i = i]
    /\ UNCHANGED <<deflator, discount, made, call, ret, costs, residualVars, callerVars>>

\* costs[i] == costs[j]
Eq(i, j) ==
    /\ i \in DOMAIN costs
    /\ j \in DOMAIN costs
    /\ cret' = ReturnBool(Cost_eq(costs[i], costs[j]))
    /\ ccall' = [NoCostCall EXCEPT !.op = "eq", !.i = i, !.j = j]
    /\ UNCHANGED <<deflator, discount, made, call, ret, costs, residualVars, callerVars>>

\* hash(costs[i])
Hash(i) ==
    /\ i \in DOMAIN costs
    /\ cret' = Return(RInt(Cost_hash(costs[i])))
    /\ ccall' = [NoCostCall EXCEPT !.op = "hash", !.i = i]
    /\ UNCHANGED <<deflator, discount, made, call, ret, costs, residualVars, callerVars>>

\* costs[i] < costs[j]
Lt(i, j) ==
    /\ i \in DOMAIN costs
    /\ j \in DOMAIN costs
    /\ cret' = Cost_compare("lt", costs[i], costs[j])
    /\ ccall' = [NoCostCall EXCEPT !.op = "lt", !.i = i, !.j = j]
    /\ UNCHANGED <<deflator, discount, made, call, ret, costs, residualVars, callerVars>>

\* costs[i] <= costs[j]
Le(i, j) ==
    /\ i \in DOMAIN costs
    /\ j \in DOMAIN costs
    /\ cret' = Cost_compare("le", costs[i], costs[j])
    /\ ccall' = [NoCostCall EXCEPT !.op = "le", !.i = i, !.j = j]
    /\ UNCHANGED <<deflator, discount, made, call, ret, costs, residualVars, callerVars>>

\* costs[i] > costs[j]
Gt(i, j) ==
    /\ i \in DOMAIN costs
    /\ j \in DOMAIN costs
    /\ cret' = Cost_compare("gt", costs[i], costs[j])
    /\ ccall' = [NoCostCall EXCEPT !.op = "gt", !.i = i, !.j = j]
    /\ UNCHANGED <<deflator, discount, made, call, ret, costs, residualVars, callerVars>>

\* costs[i] >= costs[j]
Ge(i, j) ==
    /\ i \in DOMAIN costs
    /\ j \in DOMAIN costs
    /\ cret' = Cost_compare("ge", costs[i], costs[j])
    /\ ccall' = [NoCostCall EXCEPT !.op = "ge", !.i = i, !.j = j]
    /\ UNCHANGED <<deflator, discount, made, call, ret, costs, residualVars, callerVars>>

\* costs[i] != costs[j]
Ne(i, j) ==
    /\ i \in DOMAIN costs
    /\ j \in DOMAIN costs
    /\ cret' = Cost_compare("ne", costs[i], costs[j])
    /\ ccall' = [NoCostCall EXCEPT !.op = "ne", !.i = i, !.j = j]
    /\ UNCHANGED <<deflator, discount, made, call, ret, costs, residualVars, callerVars>>

\* One Cost, built in any basis, and its conversions.
NextCost ==
    \/ /\ deflator = <<>>
       /\ \E rates \in CostRateMaps, extend \in BOOLEAN : NewGdpDeflator(rates, extend)
    \/ \E type_ \in FlagSets : ValidateType(type_)
    \/ /\ costs = <<>>
       /\ \E value \in Amounts, type_ \in FlagSets, year \in CostYears,
             discount_factor \in DiscountFactors,
             adjustment_factor \in AdjustmentFactors :
             NewCost(value, type_, year, discount_factor, adjustment_factor)
    \/ \E i \in DOMAIN costs, type_ \in FlagSets : AsType(i, type_)
    \/ \E i \in DOMAIN costs : PresentValue(i)

SpecCost == Init /\ [][NextCost]_vars

\* Two Costs, compared and hashed.
NextCostPair ==
    \/ /\ deflator = <<>>
       /\ \E rates \in CostRateMaps, extend \in BOOLEAN : NewGdpDeflator(rates, extend)
    \/ /\ Len(costs) < 2
       /\ \E value \in PairAmounts, type_ \in PairTypes, year \in PairYears,
             discount_factor \in DiscountFactors,
             adjustment_factor \in AdjustmentFactors :
             NewCost(value, type_, year, discount_factor, adjustment_factor)
    \/ \E i \in DOMAIN costs, j \in DOMAIN costs : Eq(i, j)
    \/ \E i \in DOMAIN costs : Hash(i)
    \/ \E i \in DOMAIN costs, j \in DOMAIN costs : Lt(i, j)
    \/ \E i \in DOMAIN costs, j \in DOMAIN costs : Le(i, j)
    \/ \E i \in DOMAIN costs, j \in DOMAIN costs : Gt(i, j)
    \/ \E i \in DOMAIN costs, j \in DOMAIN costs : Ge(i, j)
    \/ \E i \in DOMAIN costs, j \in DOMAIN costs : Ne(i, j)

SpecCostPair == Init /\ [][NextCostPair]_vars

\* Two GdpDeflators side by side: deflator[1] and deflator[2], each built
\* from some of two calendar years with one of two rates.
TwinKeys == {BaseYear, BaseYear + 1}
TwinRateMaps == UNION {[K -> {<<0, 1>>, <<1, 2>>}] : K \in SUBSET TwinKeys}
TwinYears == {BaseYear - 1, BaseYear + 2}

\* The second series: GdpDeflator(BaseYear, rates, extend)
NewTwin(rates, extend) ==
    /\ Len(deflator) = 1
    /\ LET r == GdpDeflator_init(BaseYear, rates, extend)
       IN  /\ deflator' = deflator \o r.obj
           /\ ret' = IF r.exc = "" THEN ReturnNone ELSE Raise(r.exc)
    /\ made' = Append(made, [rates |-> rates, extend |-> extend])
    /\ call' = [NoCall EXCEPT !.op = "GdpDeflator", !.self = 2]
    /\ UNCHANGED <<discount, costVars, residualVars, callerVars>>

\* deflator[self][year]
GetItemOf(self, year) ==
    /\ self \in DOMAIN deflator
    /\ LET r == IndexSeries_getitem(deflator[self], year)
       IN  /\ deflator' = [deflator EXCEPT ![self].values = r.values]
           /\ ret' = r.out
    /\ call' = [NoCall EXCEPT !.op = "getitem", !.year = year, !.self = self]
    /\ UNCHANGED <<discount, made, costVars, residualVars, callerVars>>

\* hash(deflator[self])
HashOf(self) ==
    /\ self \in DOMAIN deflator
    /\ LET r == IndexSeries_hash(deflator[self])
       IN  /\ deflator' = [deflator EXCEPT ![self].hash = r.hash]
           /\ ret' = Return(RInt(r.val))
    /\ call' = [NoCall EXCEPT !.op = "hash", !.self = self]
    /\ UNCHANGED <<discount, made, costVars, residualVars, callerVars>>

\* deflator[self] == deflator[other]
EqOf(self, other) ==
    /\ self \in DOMAIN deflator
    /\ other \in DOMAIN deflator
    /\ ret' = ReturnBool(IndexSeries_eq(deflator[self], deflator[other]))
    /\ call' = [NoCall EXCEPT !.op = "eq", !.self = self, !.other = other]
    /\ UNCHANGED <<deflator, discount, made, costVars, residualVars, callerVars>>

NextTwin ==
    \/ /\ deflator = <<>>
       /\ \E rates \in TwinRateMaps, extend \in BOOLEAN :
             NewGdpDeflator(rates, extend)
    \/ \E rates \in TwinRateMaps, extend \in BOOLEAN : NewTwin(rates, extend)
    \/ \E self \in 1..2, year \in TwinYears : GetItemOf(self, year)
    \/ \E self \in 1..2 : HashOf(self)
    \/ \E self \in 1..2, other \in 1..2 : EqOf(self, other)

SpecTwin == Init /\ [][NextTwin]_vars

\* deflator.get(year, default); default is <<>> for None
Get(year, default) ==
    /\ deflator # <<>>
    /\ LET r == IndexSeries_get(deflator[1], year, default)
       IN  /\ deflator' = <<[deflator[1] EXCEPT !.values = r.values]>>
           /\ ret' = r.out
    /\ call' = [NoCall EXCEPT !.op = "get", !.year = year]
    /\ UNCHANGED <<discount, made, costVars, residualVars, callerVars>>

Defaults == {<<>>, <<RInt(0)>>}

\* A GdpDeflator read with [] and with get.
NextGet ==
    \/ /\ deflator = <<>>
       /\ \E rates \in RateMaps, extend \in BOOLEAN : NewGdpDeflator(rates, extend)
    \/ /\ deflator # <<>>
       /\ \E year \in LookYears : GetItem(year)
    \/ /\ deflator # <<>>
       /\ \E year \in LookYears, default \in Defaults : Get(year, default)

SpecGet == Init /\ [][NextGet]_vars

\* calc = ResidualValueCalculator(method)
NewCalculator(method) ==
    /\ calc = <<>>
    /\ LET r == ResidualValueCalculator_init(method)
       IN  /\ calc' = r.obj
           /\ rret' = IF r.exc = "" THEN ReturnNone ELSE Raise(r.exc)
    /\ rcall' = [NoResidualCall EXCEPT !.op = "ResidualValueCalculator",
                                       !.method = method]
    /\ UNCHANGED <<deflator, discount, made, call, ret, costVars, callerVars>>

\* calc.calculate(value, life, build_year, target_year, scrap_value)
Calculate(value, life, build_year, target_year, scrap_value) ==
    /\ calc # <<>>
    /\ rret' = ResidualValueCalculator_calculate(calc[1], value, life, build_year,
                                                 target_year, scrap_value)
    /\ rcall' = [op |-> "calculate", method |-> calc[1].method, value |-> value,
                 life |-> life, build_year |-> build_year,
                 target_year |-> target_year, scrap_value |-> scrap_value]
    /\ UNCHANGED <<deflator, discount, made, call, ret, costVars, calc, callerVars>>

\* Asset values, scrap values, lives and years: the figures of the tests, an
\* asset worth less than its scrap, lives of no and of one year, and target
\* years from before the build year to after the end of the life.
AssetValues == {RInt(50), RInt(1000)}
ScrapValues == {RInt(0), RInt(100)}
Lives == {0, 1, 2, 5}
BuildYears == {0, 2}
TargetYears == (0 - 1)..8
MethodNames == DOMAIN METHODS \cup {"this won't work"}

NextResidual ==
    \/ \E method \in MethodNames : NewCalculator(method)
    \/ \E value \in AssetValues, life \in Lives, build_year \in BuildYears,
          target_year \in TargetYears, scrap_value \in ScrapValues :
          Calculate(value, life, build_year, target_year, scrap_value)

SpecResidual == Init /\ [][NextResidual]_vars

(* Concurrent lookups: two callers run deflator[year] on the one series,
   a step of a caller being one read or one write of the cache and the
   statements on local variables that follow it. *)

\* A store that multiplies what another caller has already cached.
StoreUp_compounds(values, year_, value, fact) ==
    (year_ + 1 :> RMul(IF year_ + 1 \in DOMAIN values THEN values[year_ + 1]
                       ELSE value, fact)) @@ values

\* self._values[year_+1] = <value read> * fact
StoreUp(values, year_, value, fact) ==
    (year_ + 1 :> RMul(value, fact)) @@ values

\* self._values[year_] = <value read> / fact
StoreDown(values, year_, value, fact) ==
    (year_ :> RDiv(value, fact)) @@ values

\* Caller t enters __getitem__: year -= self.year_zero
Lookup(t, year) ==
    /\ deflator # <<>>
    /\ pc[t] = "idle"
    /\ pc' = [pc EXCEPT ![t] = "test"]
    /\ frame' = [frame EXCEPT ![t] = [NoFrame EXCEPT !.year = year - deflator[1].year_zero]]
    /\ UNCHANGED <<deflator, discount, made, call, ret, costVars, residualVars>>

\* if year not in self._values
Test(t) ==
    /\ pc[t] = "test"
    /\ pc' = [pc EXCEPT ![t] = IF frame[t].year \notin DOMAIN deflator[1].values
                               THEN "min" ELSE "return"]
    /\ UNCHANGED <<deflator, discount, made, call, ret, costVars, residualVars, frame>>

\* min_year = min(self._values)
ReadMin(t) ==
    /\ pc[t] = "min"
    /\ frame' = [frame EXCEPT ![t].min_year = Min(DOMAIN deflator[1].values)]
    /\ pc' = [pc EXCEPT ![t] = "max"]
    /\ UNCHANGED <<deflator, discount, made, call, ret, costVars, residualVars>>

\* max_year = max(self._values), and the choice of the loop
ReadMax(t) ==
    /\ pc[t] = "max"
    /\ LET max_year == Max(DOMAIN deflator[1].values)
           f == frame[t]
       IN  IF f.year < f.min_year
           THEN /\ frame' = [frame EXCEPT ![t].max_year = max_year,
                                          ![t].year_ = f.min_year - 1]
                /\ pc' = [pc EXCEPT ![t] = "down_read"]
           ELSE IF f.year > max_year
           THEN /\ frame' = [frame EXCEPT ![t].max_year = max_year,
                                          ![t].year_ = max_year]
                /\ pc' = [pc EXCEPT ![t] = "up_read"]
           ELSE /\ frame' = [frame EXCEPT ![t].max_year = max_year]
                /\ pc' = [pc EXCEPT ![t] = "return"]
    /\ UNCHANGED <<deflator, discount, made, call, ret, costVars, residualVars>>

\* A lookup of caller t ends with the outcome out.
Leave(t, out) ==
    /\ frame' = [frame EXCEPT ![t] = [NoFrame EXCEPT !.year = frame[t].year,
                                                     !.out = out]]
    /\ pc' = [pc EXCEPT ![t] = "idle"]

\* fact = 1 + self._rates.get(year_, 0), and the read of self._values[year_+1]
DownRead(t) ==
    /\ pc[t] = "down_read"
    /\ LET f == frame[t]
           fact == RAdd(RInt(1), Rates_get(deflator[1], f.year_, RInt(0)))
       IN  IF f.year_ + 1 \in DOMAIN deflator[1].values
           THEN /\ frame' = [frame EXCEPT ![t].fact = fact,
                                          ![t].value = deflator[1].values[f.year_ + 1]]
                /\ pc' = [pc EXCEPT ![t] = "down_write"]
           ELSE Leave(t, Raise("KeyError"))
    /\ UNCHANGED <<deflator, discount, made, call, ret, costVars, residualVars>>

\* self._values[year_] = ... / fact, and the next year_ of the range
DownWrite(t) ==
    /\ pc[t] = "down_write"
    /\ LET f == frame[t]
       IN  /\ deflator' = [deflator EXCEPT ![1].values =
                               StoreDown(deflator[1].values, f.year_, f.value, f.fact)]
           /\ frame' = [frame EXCEPT ![t].year_ = f.year_ - 1]
           /\ pc' = [pc EXCEPT ![t] = IF f.year_ - 1 > f.year - 1
                                      THEN "down_read" ELSE "return"]
    /\ UNCHANGED <<discount, made, call, ret, costVars, residualVars>>

\* fact = 1 + self._rates.get(year_, 0), and the read of self._values[year_]
UpRead(t) ==
    /\ pc[t] = "up_read"
    /\ LET f == frame[t]
           fact == RAdd(RInt(1), Rates_get(deflator[1], f.year_, RInt(0)))
       IN  IF f.year_ \in DOMAIN deflator[1].values
           THEN /\ frame' = [frame EXCEPT ![t].fact = fact,
                                          ![t].value = deflator[1].values[f.year_]]
                /\ pc' = [pc EXCEPT ![t] = "up_write"]
           ELSE Leave(t, Raise("KeyError"))
    /\ UNCHANGED <<deflator, discount, made, call, ret, costVars, residualVars>>

\* self._values[year_+1] = ... * fact, and the next year_ of the range
UpWrite(t) ==
    /\ pc[t] = "up_write"
    /\ LET f == frame[t]
       IN  /\ deflator' = [deflator EXCEPT ![1].values =
                               StoreUp(deflator[1].values, f.year_, f.value, f.fact)]
           /\ frame' = [frame EXCEPT ![t].year_ = f.year_ + 1]
           /\ pc' = [pc EXCEPT ![t] = IF f.year_ + 1 < f.year
                                      THEN "up_read" ELSE "return"]
    /\ UNCHANGED <<discount, made, call, ret, costVars, residualVars>>

\* return self._values[year]
ReturnValue(t) ==
    /\ pc[t] = "return"
    /\ Leave(t, Dict_getitem(deflator[1].values, frame[t].year))
    /\ UNCHANGED <<deflator, discount, made, call, ret, costVars, residualVars>>

\* The series the callers share and the years they look up.
SharedRateMaps == {(BaseYear :> <<1, 2>>), [y \in KeyYears |-> IF y = BaseYear THEN <<1, 2>> ELSE <<-1, 2>>]}
SharedYears == (BaseYear - 2)..(BaseYear + 2)

NextShared ==
    \/ /\ deflator = <<>>
       /\ \E rates \in SharedRateMaps, extend \in BOOLEAN :
             NewGdpDeflator(rates, extend)
    \/ \E t \in Callers, year \in SharedYears : Lookup(t, year)
    \/ \E t \in Callers : Test(t)
    \/ \E t \in Callers : ReadMin(t)
    \/ \E t \in Callers : ReadMax(t)
    \/ \E t \in Callers : DownRead(t)
    \/ \E t \in Callers : DownWrite(t)
    \/ \E t \in Callers : UpRead(t)
    \/ \E t \in Callers : UpWrite(t)
    \/ \E t \in Callers : ReturnValue(t)

SpecShared == Init /\ [][NextShared]_vars

(* ------------------------------ claims -------------------------------- *)

\* The series objects that exist.
Series == {deflator[i] : i \in DOMAIN deflator} \cup
          {discount[i] : i \in DOMAIN discount}

\* The cache of new holds every relative year the cache of old holds, with
\* the same value.
CacheKept(old, new) ==
    old # <<>> =>
        /\ new # <<>>
        /\ \A r \in DOMAIN old[1].values :
              /\ r \in DOMAIN new[1].values
              /\ new[1].values[r] = old[1].values[r]

\* C1: the value cache of a growth series only grows: in every step a
\* relative year that is cached stays cached and keeps the value it has.
C1_CacheOnlyGrows ==
    [][CacheKept(deflator, deflator') /\ CacheKept(discount, discount')]_vars

\* A lookup has extended the cache to both sides of the base year.
C1_Witness ==
    /\ deflator # <<>>
    /\ call.op = "getitem"
    /\ Min(DOMAIN deflator[1].values) < 0
    /\ Max(DOMAIN deflator[1].values) > 1

\* A series newly constructed from the arguments the deflator was made with.
FreshDeflator ==
    GdpDeflator_init(BaseYear, made[1].rates, made[1].extend).obj[1]

\* C2: whatever was looked up before, the value cached for a relative year
\* and the value a lookup returns are the value the first lookup of that year
\* returns on a newly constructed series.
C2_OrderIndependent ==
    deflator # <<>> =>
        /\ \A r \in DOMAIN deflator[1].values :
              Return(deflator[1].values[r]) =
                  IndexSeries_getitem(FreshDeflator, r + deflator[1].year_zero).out
        /\ call.op = "getitem" =>
              ret = IndexSeries_getitem(FreshDeflator, call.year).out

\* The year looked up last lies between the base year and a year further
\* away that was cached before, after or before the base year.
C2_Witness ==
    /\ deflator # <<>>
    /\ call.op = "getitem"
    /\ LET rel == call.year - deflator[1].year_zero
       IN  \/ 0 < rel /\ rel < Max(DOMAIN deflator[1].values)
           \/ rel < 0 /\ Min(DOMAIN deflator[1].values) < rel

\* C3: on a constructed series the value lookup and the rate lookup return a
\* number for every year, cached or not, and never raise.
C3_LookupsTotal ==
    \A self \in Series :
        /\ call.op \in {"getitem", "rate"} => ret.kind = "return"
        /\ \A year \in LookYears :
              IF self.cls = "Discount"
              THEN Discount_getitem(self, year).out.kind = "return"
              ELSE IndexSeries_getitem(self, year).out.kind = "return"

\* A value was returned for a year after the last explicit rate, and one
\* for a year before the first.
C3_Witness ==
    /\ deflator # <<>>
    /\ call.op = "getitem"
    /\ ret.kind = "return"
    /\ call.year < BaseYear - 1
    /\ Max(DOMAIN deflator[1].values) > 2

\* C5: in a GdpDeflator every two adjacent cached relative years y, y+1 have
\* value[y+1] = value[y] * (1 + rate(y)), rate being the public rate lookup.
C5_CompoundsAtPublicRate ==
    deflator # <<>> =>
        \A y \in DOMAIN deflator[1].values :
            (y + 1) \in DOMAIN deflator[1].values =>
                deflator[1].values[y + 1] =
                    RMul(deflator[1].values[y],
                         RAdd(RInt(1), IndexSeries_rate(deflator[1], y)))

\* The outcome of self[year] on a Discount.
DiscountValue(self, year) == Discount_getitem(self, year).out

\* C4: once Discount(...) has been executed there is a Discount, and a lookup
\* of a relative year r beyond the largest cached relative year m adds
\* exactly m+1 .. r to its cache, each value[y+1] = value[y] / (1 + rate(y+1))
\* with rate the Discount's rate lookup.
C4_DiscountExtendsForward ==
    call.op = "Discount" =>
        /\ discount # <<>>
        /\ \A year \in LookYears :
              LET self == discount[1]
                  m == Max(DOMAIN self.values)
                  r == year - self.year_zero
                  after == Discount_getitem(self, year).values
              IN  r > m =>
                      /\ DOMAIN after = DOMAIN self.values \cup ((m + 1)..r)
                      /\ \A y \in DOMAIN self.values : after[y] = self.values[y]
                      /\ \A y \in m..(r - 1) :
                            after[y + 1] =
                                RDiv(after[y],
                                     RAdd(RInt(1), Discount_rate(self, y + 1)))

\* C6: once Discount(...) has been executed there is a Discount whose
\* rate(y) is 0 for every relative year y < base_year - year_zero and the
\* rate of its table, with the table's boundary policy, for every other y.
C6_DiscountRate ==
    call.op = "Discount" =>
        /\ discount # <<>>
        /\ \A y \in RelYears :
              LET self == discount[1]
              IN  Discount_rate(self, y) =
                      IF y < self.base_year - self.year_zero THEN RInt(0)
                      ELSE IF y < Min(DOMAIN self.rates) THEN self.initial_rate
                      ELSE IF y > Max(DOMAIN self.rates) THEN self.final_rate
                      ELSE self.rates[y]

\* C7: once Discount(...) has been executed there is a Discount whose factor
\* lookup returns 1 for the base year and for every year before it.
C7_DiscountOneBeforeBase ==
    call.op = "Discount" =>
        /\ discount # <<>>
        /\ \A year \in LookYears :
              year <= discount[1].base_year =>
                  DiscountValue(discount[1], year) = Return(RInt(1))

\* C8: once Discount(...) has been executed with rates that are all greater
\* than 0 there is a Discount whose factor at y1 is greater than its factor
\* at y2 for all years base_year <= y1 < y2.
C8_DiscountDecays ==
    (/\ call.op = "Discount"
     /\ call.rates # <<>>
     /\ DOMAIN call.rates[1] # {}
     /\ \A k \in DOMAIN call.rates[1] : RLt(RInt(0), call.rates[1][k])) =>
        /\ discount # <<>>
        /\ \A y1, y2 \in LookYears :
              (discount[1].base_year <= y1 /\ y1 < y2) =>
                  RLt(DiscountValue(discount[1], y2).val,
                      DiscountValue(discount[1], y1).val)

\* C9: once d = Discount(base_year, rates, year_zero) has been executed, for
\* every new year zero z and every year y, d.rebase(z)[y] is the value at y
\* of Discount(base_year, rates, z).
C9_RebaseIsFreshDiscount ==
    call.op = "Discount" =>
        /\ discount # <<>>
        /\ \A z \in ZeroYears, year \in LookYears :
              LET rebased == Discount_rebase(discount[1], z)
                  fresh == Discount_init(discount[1].base_year, call.rates, <<z>>)
              IN  /\ rebased.exc = ""
                  /\ fresh.exc = ""
                  /\ DiscountValue(rebased.obj[1], year) =
                         DiscountValue(fresh.obj[1], year)

\* C10: once d = Discount(...) has been executed, d.rebase(z) returns a new
\* Discount with year zero z, and lookups on it leave d as it was.  A lookup
\* on the new object acts on the new object's own fields only, so d stays
\* as it was when the call returns an object of its own.
C10_RebaseLeavesOriginal ==
    call.op = "Discount" =>
        /\ discount # <<>>
        /\ \A z \in ZeroYears :
              LET rebased == Discount_rebase(discount[1], z)
              IN  /\ rebased.exc = ""
                  /\ rebased.obj[1].cls = "Discount"
                  /\ rebased.obj[1].base_year = discount[1].base_year
                  /\ rebased.obj[1].year_zero = z
                  /\ rebased.obj[1].rates = discount[1].rates

\* C11: once Discount(...) has been executed there is a Discount; built
\* without a rate mapping it carries the built-in schedule (each band rate of
\* RATES at its band start, final rate 1/100), and built with a non-empty
\* mapping it carries that mapping's rates in place of the schedule.
C11_DefaultSchedule ==
    call.op = "Discount" =>
        /\ call.rates = <<>> =>
              /\ discount # <<>>
              /\ discount[1].final_rate = Rat(1, 100)
              /\ \A k \in DOMAIN RATES : discount[1].rates[k] = RATES[k]
        /\ (call.rates # <<>> /\ DOMAIN call.rates[1] # {}) =>
              /\ discount # <<>>
              /\ \A k \in DOMAIN call.rates[1] :
                    discount[1].rates[k] = call.rates[1][k]

\* The value self[year] returns in the state the series is in.
DeflatorValue(self, year) == IndexSeries_getitem(self, year).out.val

\* C12: outside the explicit rate range a GdpDeflator built with extend
\* false is flat: every year above the last explicit year + 1 has the value
\* of the last explicit year + 1, every year below the first explicit year
\* has the value of the first explicit year.  Built with extend true it
\* applies the first explicit rate to every earlier year and the last
\* explicit rate to every later year: value[y+1] = value[y] * (1 + rate).
C12_OutsideExplicitRange ==
    (deflator # <<>> /\ DOMAIN made[1].rates # {}) =>
        LET self == deflator[1]
            first == Min(DOMAIN made[1].rates)
            last == Max(DOMAIN made[1].rates)
        IN  \A year \in LookYears :
              IF ~made[1].extend
              THEN /\ year > last + 1 =>
                        DeflatorValue(self, year) = DeflatorValue(self, last + 1)
                   /\ year < first =>
                        DeflatorValue(self, year) = DeflatorValue(self, first)
              ELSE /\ (year < first /\ year + 1 \in LookYears) =>
                        DeflatorValue(self, year + 1) =
                            RMul(DeflatorValue(self, year),
                                 RAdd(RInt(1), made[1].rates[first]))
                   /\ (year > last /\ year + 1 \in LookYears) =>
                        DeflatorValue(self, year + 1) =
                            RMul(DeflatorValue(self, year),
                                 RAdd(RInt(1), made[1].rates[last]))

\* A deflator built with extend false from a mapping with a non-zero last
\* rate has returned the value of a year two or more after the last explicit
\* year, and its cache reaches below the first explicit year.
C12_Witness ==
    /\ deflator # <<>>
    /\ DOMAIN made[1].rates # {}
    /\ ~made[1].extend
    /\ made[1].rates[Max(DOMAIN made[1].rates)] # RInt(0)
    /\ made[1].rates[Min(DOMAIN made[1].rates)] # RInt(0)
    /\ call.op = "getitem"
    /\ ret.kind = "return"
    /\ call.year > Max(DOMAIN made[1].rates) + 1
    /\ Min(DOMAIN deflator[1].values) + BaseYear < Min(DOMAIN made[1].rates)

ForwardFilled(m, y) ==
    LET K == {k - BaseYear : k \in DOMAIN m}
    IN  IF y < Min(K) THEN m[Min(K) + BaseYear]
        ELSE IF y > Max(K) THEN m[Max(K) + BaseYear]
        ELSE m[Max({k \in K : k <= y}) + BaseYear]

C15_EmptyMapping ==
    /\ \A extended \in BOOLEAN, year_zero \in {<<>>} \cup {<<z>> : z \in ZeroYears} :
          LET r == IndexSeries_init("IndexSeries", BaseYear, <<>>, extended,
                                    RInt(1), year_zero, <<>>)
          IN  r.exc # "" /\ r.obj = <<>>
    /\ (call.op = "Discount" /\ call.rates # <<>> /\ DOMAIN call.rates[1] = {}) =>
          /\ ret.kind = "raise"
          /\ discount = <<>>
    /\ (made # <<>> /\ DOMAIN made[1].rates = {}) =>
          /\ deflator # <<>>
          /\ \A year \in LookYears :
                DeflatorValue(deflator[1], year) = RInt(100)
          /\ call.op = "getitem" => ret = Return(RInt(100))

\* A deflator built from the empty mapping has answered lookups on both
\* sides of the base year, and Discount(base_year, {}) has just raised.
C15_Witness ==
    /\ made # <<>>
    /\ DOMAIN made[1].rates = {}
    /\ deflator # <<>>
    /\ Min(DOMAIN deflator[1].values) < 0
    /\ Max(DOMAIN deflator[1].values) > 0
    /\ call.op = "Discount"
    /\ call.rates # <<>>
    /\ DOMAIN call.rates[1] = {}
    /\ ret.kind = "raise"

\* The flag sets that hold none of the four pairs validate_type names.
ValidFlagSets ==
    {t \in FlagSets :
        /\ ~(HasFlag(t, MARKET_PRICE) /\ HasFlag(t, FACTOR_COST))
        /\ ~(HasFlag(t, NOMINAL) /\ HasFlag(t, REAL))
        /\ ~(HasFlag(t, NOMINAL) /\ HasFlag(t, PRESENT_VALUE))
        /\ ~(HasFlag(t, FACTOR_COST) /\ HasFlag(t, PRESENT_VALUE))}

\* The flag sets C16 names: market price with factor cost, nominal with
\* real, nominal with present value.
Contradictory(t) ==
    \/ HasFlag(t, MARKET_PRICE) /\ HasFlag(t, FACTOR_COST)
    \/ HasFlag(t, NOMINAL) /\ HasFlag(t, REAL)
    \/ HasFlag(t, NOMINAL) /\ HasFlag(t, PRESENT_VALUE)

\* C16: a Cost(...) call with a contradictory flag set raises and leaves
\* the Costs that exist as they were, none added; an as_type call with a
\* contradictory flag set raises and returns no value.
C16_ContradictoryRejected ==
    [][/\ (ccall'.op = "Cost" /\ Contradictory(ccall'.type_)) =>
              /\ cret'.kind = "raise"
              /\ costs' = costs
       /\ (ccall'.op = "as_type" /\ Contradictory(ccall'.type_)) =>
              cret'.kind = "raise"]_vars

\* as_type has raised on a Cost for a flag set with nominal and real.
C16_Witness ==
    /\ costs # <<>>
    /\ ccall.op = "as_type"
    /\ HasFlag(ccall.type_, NOMINAL)
    /\ HasFlag(ccall.type_, REAL)
    /\ cret.kind = "raise"

\* C17: validate_type returns without error exactly on the flag sets with
\* none of the pairs market price + factor cost, nominal + real, nominal +
\* present value, factor cost + present value; it rejects factor cost +
\* present value and accepts the five sets the tests name.
C17_ValidateTypeExact ==
    /\ \A t \in FlagSets : (Cost_validate_type(t) = "") <=> t \in ValidFlagSets
    /\ Cost_validate_type(FACTOR_COST + PRESENT_VALUE) # ""
    /\ \A t \in {MARKET_PRICE + REAL, FACTOR_COST + REAL,
                 MARKET_PRICE + NOMINAL, FACTOR_COST + NOMINAL,
                 MARKET_PRICE + REAL + PRESENT_VALUE} : Cost_validate_type(t) = ""
    /\ ccall.op = "validate_type" =>
          /\ ccall.type_ \in ValidFlagSets => cret = ReturnNone
          /\ ccall.type_ \notin ValidFlagSets => cret.kind = "raise"

\* validate_type has raised for factor cost + present value.
C17_Witness ==
    /\ ccall.op = "validate_type"
    /\ ccall.type_ = FACTOR_COST + PRESENT_VALUE
    /\ cret.kind = "raise"

\* x and v differ by no more than seven roundings of v: a Cost is built with
\* at most three divisions and converted with at most three multiplications,
\* each rounded once to a significand of FloatBits bits.
Close(x, v) ==
    LET diff == RAdd(x, <<0 - v[1], v[2]>>)
    IN  ~RLt(RMul(Rat(7, 2^FloatBits), <<Abs(v[1]), v[2]>>),
             <<Abs(diff[1]), diff[2]>>)

\* C18: once Cost(v, B, ...) has returned for a valid flag set B, the empty
\* set and the sets with PRESENT_VALUE included, as_type(B) on the new Cost
\* returns v up to rounding.
C18_RoundTrip ==
    (ccall.op = "Cost" /\ ccall.type_ \in ValidFlagSets) =>
        /\ cret = ReturnNone
        /\ costs # <<>>
        /\ LET back == Cost_as_type(costs[Len(costs)], ccall.type_)
           IN  /\ back.kind = "return"
               /\ Close(back.val, ccall.value)

\* A Cost was built from a present value with discount, deflation and
\* adjustment factors other than 1, and stores another amount than it was
\* given.
C18_Witness ==
    /\ ccall.op = "Cost"
    /\ HasFlag(ccall.type_, PRESENT_VALUE)
    /\ cret = ReturnNone
    /\ costs # <<>>
    /\ costs[Len(costs)].value # ccall.value
    /\ costs[Len(costs)].discount_factor # RInt(1)
    /\ costs[Len(costs)].deflation_factor # RInt(1)
    /\ costs[Len(costs)].adjustment_factor # RInt(1)

\* C20: for every Cost, present_value is value * adjustment_factor *
\* deflation_factor * discount_factor as floats multiplied in that order, it
\* is as_type(REAL | MARKET_PRICE) times discount_factor up to rounding, and
\* as_type of every valid flag set with PRESENT_VALUE returns present_value
\* itself.
C20_PresentValue ==
    \A i \in DOMAIN costs :
        LET self == costs[i]
            pv == Cost_present_value(self)
        IN  /\ pv = FMul(FMul(FMul(self.value, self.adjustment_factor),
                               self.deflation_factor),
                          self.discount_factor)
            /\ Close(RMul(Cost_as_type(self, REAL + MARKET_PRICE).val,
                          self.discount_factor), pv)
            /\ \A t \in ValidFlagSets :
                  HasFlag(t, PRESENT_VALUE) => Cost_as_type(self, t) = Return(pv)
            /\ (ccall.op = "present_value" /\ ccall.i = i) => cret = Return(pv)
            /\ (/\ ccall.op = "as_type"
                /\ ccall.i = i
                /\ ccall.type_ \in ValidFlagSets
                /\ HasFlag(ccall.type_, PRESENT_VALUE)) => cret = Return(pv)

\* as_type has returned the present value of a Cost that was not built from
\* a present value and whose three factors are all other than 1.
C20_Witness ==
    /\ costs # <<>>
    /\ ccall.op = "as_type"
    /\ HasFlag(ccall.type_, PRESENT_VALUE)
    /\ cret.kind = "return"
    /\ cret.val # costs[1].value
    /\ costs[1].discount_factor # RInt(1)
    /\ costs[1].deflation_factor # RInt(1)
    /\ costs[1].adjustment_factor # RInt(1)

\* C19: two Costs are equal exactly when value, year and the three factors
\* agree, and equal Costs have equal hashes; and when a second Cost is built
\* for the year, discount and adjustment factor of the first from the market
\* price of the first one's nominal factor cost (its value times the
\* adjustment factor), the two are equal and have equal hashes.
C19_EqualAcrossBases ==
    /\ \A i \in DOMAIN costs, j \in DOMAIN costs :
          /\ Cost_eq(costs[i], costs[j]) <=> costs[i] = costs[j]
          /\ Cost_eq(costs[i], costs[j]) => Cost_hash(costs[i]) = Cost_hash(costs[j])
          /\ (ccall.op = "eq" /\ ccall.i = i /\ ccall.j = j) =>
                cret = ReturnBool(costs[i] = costs[j])
    /\ (/\ Len(costs) = 2
        /\ ccall.op = "Cost"
        /\ ccall.type_ = MARKET_PRICE
        /\ ccall.year = costs[1].year
        /\ ccall.discount_factor = costs[1].discount_factor
        /\ ccall.adjustment_factor = costs[1].adjustment_factor
        /\ ccall.value = FMul(costs[1].value, costs[1].adjustment_factor)) =>
          /\ Cost_eq(costs[1], costs[2])
          /\ Cost_hash(costs[1]) = Cost_hash(costs[2])

\* The amount Cost(v, type_, ...) stores when it divides v by the discount
\* factor if byDiscount, then by the deflation factor if byDeflation, then
\* by the adjustment factor if byAdjustment.
Normalised(v, self, byDiscount, byDeflation, byAdjustment) ==
    LET v1 == IF byDiscount THEN FDiv(v, self.discount_factor) ELSE v
        v2 == IF byDeflation THEN FDiv(v1, self.deflation_factor) ELSE v1
    IN  IF byAdjustment THEN FDiv(v2, self.adjustment_factor) ELSE v2

\* C21 as stated: the Cost just built from (v, type_) stores v divided by the
\* discount factor if PRESENT_VALUE is supplied, by the deflation factor if
\* REAL or PRESENT_VALUE is supplied, and by the adjustment factor only if
\* MARKET_PRICE is supplied; as_type(PRESENT_VALUE) is as_type(REAL) times
\* the discount factor.
C21_AdjustedOnlyIfMarketPrice ==
    (ccall.op = "Cost" /\ cret = ReturnNone /\ costs # <<>>) =>
        LET self == costs[Len(costs)]
            t == ccall.type_
        IN  /\ self.value =
                   Normalised(ccall.value, self, HasFlag(t, PRESENT_VALUE),
                              HasFlag(t, PRESENT_VALUE) \/ HasFlag(t, REAL),
                              HasFlag(t, MARKET_PRICE))
            /\ Close(Cost_as_type(self, PRESENT_VALUE).val,
                     RMul(Cost_as_type(self, REAL).val, self.discount_factor))

\* C21 amended: the Cost just built from (v, type_) stores v divided by the
\* discount factor if PRESENT_VALUE is supplied, by the deflation factor if
\* REAL or PRESENT_VALUE is supplied, and by the adjustment factor if
\* MARKET_PRICE or PRESENT_VALUE is supplied; as_type(PRESENT_VALUE) is
\* as_type(REAL | MARKET_PRICE) times the discount factor, up to rounding.
C21_PresentValueIsMarketPrice ==
    (ccall.op = "Cost" /\ cret = ReturnNone /\ costs # <<>>) =>
        LET self == costs[Len(costs)]
            t == ccall.type_
        IN  /\ self.value =
                   Normalised(ccall.value, self, HasFlag(t, PRESENT_VALUE),
                              HasFlag(t, PRESENT_VALUE) \/ HasFlag(t, REAL),
                              HasFlag(t, PRESENT_VALUE) \/ HasFlag(t, MARKET_PRICE))
            /\ Close(Cost_as_type(self, PRESENT_VALUE).val,
                     RMul(Cost_as_type(self, REAL + MARKET_PRICE).val,
                          self.discount_factor))

\* A Cost was built from a present value without MARKET_PRICE, with an
\* adjustment factor other than 1, and stores the amount divided by it.
C21_Witness ==
    /\ ccall.op = "Cost"
    /\ cret = ReturnNone
    /\ costs # <<>>
    /\ HasFlag(ccall.type_, PRESENT_VALUE)
    /\ ~HasFlag(ccall.type_, MARKET_PRICE)
    /\ ccall.adjustment_factor # RInt(1)
    /\ costs[Len(costs)].value #
           FDiv(FDiv(ccall.value, ccall.discount_factor),
                costs[Len(costs)].deflation_factor)

\* The operators a op b of C22 succeed on a and b, return what the order of
\* the stored values says, and exactly one of a < b, a == b, a > b holds.
OrderedByValue(a, b) ==
    /\ Cost_compare("lt", a, b) = ReturnBool(RLt(a.value, b.value))
    /\ Cost_compare("le", a, b) = ReturnBool(~RLt(b.value, a.value))
    /\ Cost_compare("gt", a, b) = ReturnBool(RLt(b.value, a.value))
    /\ Cost_compare("ge", a, b) = ReturnBool(~RLt(a.value, b.value))
    /\ Cardinality({op \in {"lt", "gt"} :
                       Cost_compare(op, a, b) = ReturnBool(TRUE)}) +
       (IF Cost_eq(a, b) THEN 1 ELSE 0) = 1

\* Each of a < b, a <= b, a > b, a >= b raises, and a != b is True.
Unordered(a, b) ==
    /\ \A op \in {"lt", "le", "gt", "ge"} : Cost_compare(op, a, b).kind = "raise"
    /\ Cost_compare("ne", a, b) = ReturnBool(TRUE)

\* The comparison executed last returned what the interpreter's evaluation
\* of the operator gives.
LastComparison ==
    ccall.op \in {"lt", "le", "gt", "ge", "ne"} =>
        cret = Cost_compare(ccall.op, costs[ccall.i], costs[ccall.j])

\* C22 as stated: two Costs are ordered exactly when their discount,
\* deflation and adjustment factors are equal: then the four comparisons
\* succeed and follow the stored values, otherwise each raises and != is
\* True.
C22_OrderedIffFactorsEqual ==
    /\ LastComparison
    /\ \A i \in DOMAIN costs, j \in DOMAIN costs :
          LET a == costs[i]
              b == costs[j]
          IN  IF /\ a.discount_factor = b.discount_factor
                 /\ a.deflation_factor = b.deflation_factor
                 /\ a.adjustment_factor = b.adjustment_factor
              THEN OrderedByValue(a, b)
              ELSE Unordered(a, b)

\* C22 amended: two Costs are ordered exactly when their year and their
\* discount, deflation and adjustment factors are equal: then the four
\* comparisons succeed and follow the stored values, otherwise each raises
\* and != is True.
C22_OrderedIffYearAndFactorsEqual ==
    /\ LastComparison
    /\ \A i \in DOMAIN costs, j \in DOMAIN costs :
          LET a == costs[i]
              b == costs[j]
          IN  IF /\ a.year = b.year
                 /\ a.discount_factor = b.discount_factor
                 /\ a.deflation_factor = b.deflation_factor
                 /\ a.adjustment_factor = b.adjustment_factor
              THEN OrderedByValue(a, b)
              ELSE Unordered(a, b)

\* costs[1] < costs[2] has raised for two Costs of different years whose
\* three factors are equal.
C22_Witness ==
    /\ Len(costs) = 2
    /\ ccall.op = "lt"
    /\ ccall.i = 1
    /\ ccall.j = 2
    /\ cret.kind = "raise"
    /\ costs[1].year # costs[2].year
    /\ costs[1].discount_factor = costs[2].discount_factor
    /\ costs[1].deflation_factor = costs[2].deflation_factor
    /\ costs[1].adjustment_factor = costs[2].adjustment_factor

\* The series deflator[k] as it was directly after its construction.
FreshTwin(k) == GdpDeflator_init(BaseYear, made[k].rates, made[k].extend).obj[1]

\* C23: two growth series constructed with the same base year, year zero and
\* rate mapping are equal and have equal hashes whatever lookups have been
\* made on either: the result of == and of hash() is the one the newly
\* constructed series give, whatever the value caches hold, so that the hash
\* of a series is the same before and after any lookup.
C23_EqualityIgnoresCache ==
    /\ \A k \in DOMAIN deflator, l \in DOMAIN deflator :
          /\ made[k].rates = made[l].rates =>
                /\ IndexSeries_eq(deflator[k], deflator[l])
                /\ IndexSeries_hash(deflator[k]).val =
                       IndexSeries_hash(deflator[l]).val
          /\ IndexSeries_eq(deflator[k], deflator[l]) =
                 IndexSeries_eq(FreshTwin(k), FreshTwin(l))
          /\ IndexSeries_hash(deflator[k]).val =
                 IndexSeries_hash(FreshTwin(k)).val
    /\ call.op = "eq" =>
          ret = ReturnBool(IndexSeries_eq(FreshTwin(call.self),
                                          FreshTwin(call.other)))
    /\ call.op = "hash" =>
          ret = Return(RInt(IndexSeries_hash(FreshTwin(call.self)).val))

\* Two series made from the same non-empty mapping, hashed before lookups
\* that left them with different caches, have just been compared and found
\* equal.
C23_Witness ==
    /\ Len(deflator) = 2
    /\ made[1].rates = made[2].rates
    /\ DOMAIN made[1].rates # {}
    /\ deflator[1].hash # <<>>
    /\ deflator[2].hash # <<>>
    /\ DOMAIN deflator[1].values # DOMAIN deflator[2].values
    /\ Cardinality(DOMAIN deflator[1].values) > 1
    /\ Cardinality(DOMAIN deflator[2].values) > 1
    /\ call.op = "eq"
    /\ call.self # call.other
    /\ ret = ReturnBool(TRUE)

\* C24: get(year, default) returns the value series[year] returns whenever
\* that lookup succeeds: after a get whose lookup has left the year in the
\* cache, the result is the cached value.
C24_GetReturnsValue ==
    (call.op = "get" /\ call.year - deflator[1].year_zero \in DOMAIN deflator[1].values) =>
        ret = Return(deflator[1].values[call.year - deflator[1].year_zero])

\* C25: for every depreciation method and all inputs with target_year >=
\* build_year, calculate returns a value that is not below scrap_value, and
\* a target_year before build_year is rejected with an error.
C25_NotBelowScrap ==
    rcall.op = "calculate" =>
        IF rcall.target_year < rcall.build_year THEN rret = Raise("ValueError")
        ELSE /\ rret.kind = "return"
             /\ ~RLt(rret.val, rcall.scrap_value)

\* What a single caller gets for the relative year on a series newly
\* constructed from the same arguments.
Sequential(year) ==
    IndexSeries_getitem(FreshDeflator, year + FreshDeflator.year_zero).out

\* C26: with two callers looking up years on the same series, their steps
\* interleaved at single reads and writes of the cache, every value in the
\* cache is the value a single sequential caller obtains for that year, so
\* that no year is ever written with two different values, and every lookup
\* that has ended has returned that value and none has failed.
C26_InterleavedLookups ==
    deflator # <<>> =>
        /\ \A r \in DOMAIN deflator[1].values :
              Return(deflator[1].values[r]) = Sequential(r)
        /\ \A t \in Callers :
              (pc[t] = "idle" /\ frame[t].out.kind # "none") =>
                  frame[t].out = Sequential(frame[t].year)

\* Caller 1 is about to write a year that caller 2 has cached since caller 1
\* read the value it writes from, and caller 2 is still in its loop.
C26_Witness ==
    /\ deflator # <<>>
    /\ pc[1] = "up_write"
    /\ frame[1].year_ + 1 \in DOMAIN deflator[1].values
    /\ pc[2] = "up_read"
    /\ frame[2].year_ = frame[1].year_ + 1

\* The cached relative years of the series are a contiguous interval that
\* holds base_year - year_zero, where the initial value is cached.
IntervalAroundBase(self, initial_value) ==
    /\ DOMAIN self.values = Min(DOMAIN self.values)..Max(DOMAIN self.values)
    /\ self.base_year - self.year_zero \in DOMAIN self.values
    /\ self.values[self.base_year - self.year_zero] = initial_value

\* C27: after construction and any lookups the cached relative years of a
\* growth series are a contiguous interval that holds base_year - year_zero,
\* cached with the initial value (1 for a Discount, 100 for a GdpDeflator);
\* once Discount(...) has been executed there is a Discount whose cache
\* holds exactly the relative years from base_year - year_zero up to
\* max(0, base_year - year_zero).
C27_CacheInterval ==
    /\ deflator # <<>> => IntervalAroundBase(deflator[1], RInt(100))
    /\ discount # <<>> => IntervalAroundBase(discount[1], RInt(1))
    /\ call.op = "Discount" =>
          /\ discount # <<>>
          /\ LET base == discount[1].base_year - discount[1].year_zero
             IN  DOMAIN discount[1].values = base..Max({0, base})

\* C28: two growth series that compare equal return the same value for
\* every calendar year and the same rate for every relative year, also
\* outside the explicit rate range.
C28_EqualSeriesAgree ==
    \A k \in DOMAIN deflator, l \in DOMAIN deflator :
        IndexSeries_eq(deflator[k], deflator[l]) =>
            /\ \A year \in LookYears :
                  DeflatorValue(deflator[k], year) = DeflatorValue(deflator[l], year)
            /\ \A year \in RelYears :
                  IndexSeries_rate(deflator[k], year) = IndexSeries_rate(deflator[l], year)

====
